---- MODULE Spec2Model ----
(***************************************************************************)
(* English Study Planner (src/src/App.jsx): the navigation state of        *)
(* EnglishStudyPlannerApp, its effects and Firestore listeners, the CRUD   *)
(* handlers and the cloud export / import of ExportImportCloud, over a     *)
(* model of the per-user Firestore tree                                    *)
(*   users/{uid}/levels/{level}/days/{dayId}/words/{wordId}/phrases/{id}.  *)
(*                                                                         *)
(* One browser session of one user is modelled.  A handler, the render it  *)
(* causes and the store write it issues (applied to the local cache at     *)
(* once) are one step; the passive effects of a render whose dependencies  *)
(* [user, level, day] changed are the next step (RunEffects), and nothing  *)
(* else runs in between; snapshot callbacks are delivered asynchronously,  *)
(* each as a step of its own.                                              *)
(***************************************************************************)
EXTENDS Integers, Sequences, FiniteSets, Bags, TLC

----------------------------------------------------------------------------
(* Program constants *)

LEVELS == <<"A1", "A2", "B1", "B2", "C1">>

\* App.jsx:653 and :611, "Máx 40 palabras por día"
MAX_WORDS == 40

\* App.jsx:724 and :697, "Máx 10 frases por palabra"
MAX_PHRASES == 10

----------------------------------------------------------------------------
(* Bounds of the exploration *)

\* the levels the session visits
Levels == {LEVELS[1], LEVELS[2]}

\* day keys the user types or imports are among "1" .. MaxDay
MaxDay == 2

\* store writes issued by the session's handlers (add, delete, import)
MaxWrites == 1

----------------------------------------------------------------------------
(* Values *)

Null == "null"

\* the account the session signs in to, and a second, empty account
TheUser == "u1"

OtherUser == "u2"

Digits == <<"1", "2", "3", "4", "5", "6", "7", "8", "9">>

DayIds == {Digits[i] : i \in 1..MaxDay}

\* JS Number(text) for the texts that occur as day keys or are typed into
\* the add-day dialog, in tenths (Number("1.5").tenths = 15): a decimal
\* numeral converts to its value, anything else to NaN
Number(text) ==
  IF \E i \in 1..9 : Digits[i] = text
    THEN [finite |-> TRUE,
          tenths |-> 10 * (CHOOSE i \in 1..9 : Digits[i] = text)]
    ELSE CASE text = "0"   -> [finite |-> TRUE, tenths |-> 0]
           [] text = "0.5" -> [finite |-> TRUE, tenths |-> 5]
           [] text = "1.5" -> [finite |-> TRUE, tenths |-> 15]
           [] text = "-1"  -> [finite |-> TRUE, tenths |-> -10]
           [] OTHER        -> [finite |-> FALSE, tenths |-> 0]

\* Number.isFinite(n) ? n : 0, for a day key (a whole number)
DayNumberOf(dayId) ==
  LET n == Number(dayId) IN IF n.finite THEN n.tenths \div 10 ELSE 0

\* finite maps with a growing domain (JS objects, Firestore collections)
EmptyMap == << >>

Put(f, k, v) == [x \in (DOMAIN f) \cup {k} |-> IF x = k THEN v ELSE f[x]]

Drop(f, k) == [x \in (DOMAIN f) \ {k} |-> f[x]]

Get(f, k, default) == IF k \in DOMAIN f THEN f[k] ELSE default

Ids(s) == {s[i].id : i \in 1..Len(s)}

\* the records of s whose id is not in gone, in order
Without(s, gone) ==
  LET F[i \in 0..Len(s)] ==
        IF i = 0 THEN << >>
        ELSE IF s[i].id \in gone THEN F[i - 1] ELSE Append(F[i - 1], s[i])
  IN F[Len(s)]

\* the first n elements of s (Firestore limit(n))
Limit(s, n) == IF Len(s) <= n THEN s ELSE SubSeq(s, 1, n)

\* the elements of a finite set of integers in ascending order
RECURSIVE Ascending(_)
Ascending(S) ==
  IF S = {} THEN << >>
  ELSE LET m == CHOOSE x \in S : \A y \in S : x <= y
       IN <<m>> \o Ascending(S \ {m})

----------------------------------------------------------------------------
(* State *)

VARIABLES
  \* React state of EnglishStudyPlannerApp (App.jsx:486-498)
  user, loadingUser, level, day,
  days, words, phrasesByWord, expandedWords, phrasesUnsubsRef,
  \* the dependencies [user, level, day] of the last effects run and the
  \* cleanup closures the two listener effects returned
  effectDeps, daysCleanup, wordsCleanup,
  \* logout() is waiting for signOut(auth)
  signingOut,
  \* Firestore: the documents of users/{uid}/..., the registered onSnapshot
  \* listeners (bags of query targets) and those with a snapshot to deliver
  store, dayListeners, wordListeners, phraseListeners,
  dayPending, wordPending, phrasePending,
  \* store writes issued by handlers so far; addDoc derives its auto-id
  \* from it
  writes,
  \* the file last written by exportAll
  exportFile,
  \* the alert() shown by the last step, "" when it showed none
  alert,
  \* history: the query each in-memory list was last loaded from, and the
  \* words deleteWord was invoked on while their phrase panel was expanded
  daysFrom, wordsFrom, phrasesFrom, deletedExpanded,
  \* history: the upserts of day "1" made by the callback of the day-list
  \* listener since the day-list effect last ran
  dayOneUpserts,
  \* history, kept by SpecLate only: the days whose word-list or phrase
  \* listeners were cancelled while a snapshot of theirs was still to be
  \* delivered, until the next word list is loaded or the level is left
  cancelledQueued,
  \* the single-document version (part_001:385-439): the React state db, the
  \* documents users/{uid} of the store, the uid whose document the load
  \* effect listens to and whether a snapshot is to be delivered to it, the
  \* dependencies [user, db] of the last effects run, and whether the
  \* listener has delivered its first snapshot
  db, firestore, docListener, docPending, docDeps, docLoaded

vars == <<user, loadingUser, level, day, days, words, phrasesByWord,
          expandedWords, phrasesUnsubsRef, effectDeps, daysCleanup,
          wordsCleanup, signingOut, store, dayListeners, wordListeners,
          phraseListeners, dayPending, wordPending, phrasePending, writes,
          exportFile, alert, daysFrom, wordsFrom, phrasesFrom,
          deletedExpanded, dayOneUpserts, cancelledQueued, db, firestore,
          docListener, docPending, docDeps, docLoaded>>

\* the state of the single-document version besides user, level and day
singleDocVars == <<db, firestore, docListener, docPending, docDeps, docLoaded>>

uiVars == <<days, words, phrasesByWord, expandedWords, daysFrom, wordsFrom,
            phrasesFrom>>

navVars == <<user, loadingUser, level, day, signingOut>>

listenerVars == <<dayListeners, wordListeners, phraseListeners, dayPending,
                  wordPending, phrasePending, phrasesUnsubsRef>>

NoTarget == << >>

NoFile == << >>

----------------------------------------------------------------------------
(* The Firestore tree.  store.days maps <<uid, level, dayId>> to the day   *)
(* document; store.words maps <<uid, level, dayId>> to the word documents  *)
(* of that collection in createdAt order; store.phrases maps               *)
(* <<uid, level, dayId, wordId>> to the phrase documents in createdAt      *)
(* order.  A collection exists whether or not its parent document does.    *)

EmptyStore == [days |-> EmptyMap, words |-> EmptyMap, phrases |-> EmptyMap]

\* levelDaysCol / wordsCol / phrasesCol: the documents of a collection
wordsCol(st, uid, lvl, dayId) == Get(st.words, <<uid, lvl, dayId>>, << >>)

phrasesCol(st, uid, lvl, dayId, wordId) ==
  Get(st.phrases, <<uid, lvl, dayId, wordId>>, << >>)

levelDaysCol(st, uid, lvl) ==
  {p[3] : p \in {q \in DOMAIN st.days : q[1] = uid /\ q[2] = lvl}}

\* a collection with no document is absent from the map
PutCol(m, path, docs) == IF docs = << >> THEN Drop(m, path) ELSE Put(m, path, docs)

\* setDoc(dayDocRef(uid, level, dayId), {dayNumber, createdAt}, {merge: true})
SetDay(st, uid, lvl, dayId) ==
  [st EXCEPT !.days =
     Put(@, <<uid, lvl, dayId>>, [dayNumber |-> DayNumberOf(dayId)])]

\* query(levelDaysCol, orderBy("dayNumber", "asc")): equal dayNumbers are
\* delivered in document-name order, of which the model fixes one
RECURSIVE DaysQuery(_, _, _, _)
DaysQuery(st, uid, lvl, left) ==
  IF left = {} THEN << >>
  ELSE LET d == CHOOSE x \in left : \A y \in left :
                  st.days[<<uid, lvl, x>>].dayNumber
                    <= st.days[<<uid, lvl, y>>].dayNumber
       IN <<[id |-> d, dayNumber |-> st.days[<<uid, lvl, d>>].dayNumber]>>
            \o DaysQuery(st, uid, lvl, left \ {d})

\* the variables of the single-document version, which this version of the
\* program does not have
SingleDocUnused ==
  /\ db = EmptyMap /\ firestore = EmptyMap
  /\ docListener = Null /\ docPending = FALSE
  /\ docDeps = <<Null, EmptyMap>> /\ docLoaded = FALSE

----------------------------------------------------------------------------
(* Initial state: the component has just mounted (App.jsx:486-500) and the *)
(* session is unresolved.  The account of TheUser is a returning user's:   *)
(* level A1                                                                *)
(* has day "1" holding MAX_WORDS words (ids 1 .. MAX_WORDS), the first of  *)
(* which has MAX_PHRASES phrases (ids 101 .. 100 + MAX_PHRASES); level A2  *)
(* has never been opened.                                                  *)

InitialWords == [i \in 1..MAX_WORDS |-> [id |-> i, en |-> "hello", es |-> "hola"]]

InitialPhrases ==
  [i \in 1..MAX_PHRASES |-> [id |-> 100 + i, en |-> "hello", es |-> "hola"]]

InitialStore ==
  [days    |-> Put(EmptyMap, <<TheUser, LEVELS[1], "1">>, [dayNumber |-> 1]),
   words   |-> Put(EmptyMap, <<TheUser, LEVELS[1], "1">>, InitialWords),
   phrases |-> Put(EmptyMap, <<TheUser, LEVELS[1], "1", 1>>, InitialPhrases)]

\* the n-th auto-id of addDoc
AutoId(n) == 200 + n

\* the value of cancelledQueued in the specifications that keep no such
\* history
Untracked == {NoTarget}

\* the cards the session clicks on: the first stored word and phrase and
\* the documents the session itself adds; the other stored words are listed
\* and counted only
Focus == {1, 101} \cup {AutoId(n) : n \in 1..MaxWrites}

Init ==
  /\ user = Null /\ loadingUser = TRUE /\ level = Null /\ day = Null
  /\ days = << >> /\ words = << >>
  /\ phrasesByWord = EmptyMap /\ expandedWords = EmptyMap
  /\ phrasesUnsubsRef = EmptyMap
  /\ effectDeps = <<Null, Null, Null>>
  /\ daysCleanup = NoTarget /\ wordsCleanup = NoTarget
  /\ signingOut = FALSE
  /\ store = InitialStore
  /\ dayListeners = EmptyBag /\ wordListeners = EmptyBag
  /\ phraseListeners = EmptyBag
  /\ dayPending = {} /\ wordPending = {} /\ phrasePending = {}
  /\ writes = 0
  /\ exportFile = NoFile
  /\ daysFrom = NoTarget /\ wordsFrom = NoTarget /\ phrasesFrom = EmptyMap
  /\ deletedExpanded = {}
  /\ dayOneUpserts = 0
  /\ cancelledQueued = Untracked
  /\ SingleDocUnused
  /\ alert = ""

----------------------------------------------------------------------------
(* Rendering (App.jsx:749-931): which screen is shown decides which        *)
(* handlers can be invoked.                                                *)

\* passive effects of the last render are still to run
EffectsPending == effectDeps # <<user, level, day>>

Interactive == ~EffectsPending /\ ~loadingUser /\ user # Null

LevelSelect == Interactive /\ level = Null

DaySelect == Interactive /\ level # Null /\ day = Null

DayDetail == Interactive /\ level # Null /\ day # Null

\* the unsubscribe function returned by onSnapshot, called once
Unsubscribe(listeners, target) ==
  IF target = NoTarget THEN listeners ELSE listeners (-) SetToBag({target})

\* the handles kept in phrasesUnsubsRef.current
Handles(ref) == {ref[w] : w \in DOMAIN ref}

\* variant: the handles are not invoked
UnsubscribeAll_none(listeners, ref) == listeners

\* Object.values(phrasesUnsubsRef.current).forEach(fn => fn())
UnsubscribeAll(listeners, ref) == listeners (-) SetToBag(Handles(ref))

\* a local write to the store: every listener on a written collection has
\* a new snapshot to deliver
Write(newStore, dayCols, wordCols, phraseCols) ==
  /\ store' = newStore
  /\ dayPending' = dayPending \cup (dayCols \cap BagToSet(dayListeners))
  /\ wordPending' = wordPending \cup (wordCols \cap BagToSet(wordListeners))
  /\ phrasePending' =
       phrasePending \cup (phraseCols \cap BagToSet(phraseListeners))

\* history: gone are the queued snapshots a cancel has just discarded
NoteCancelled(gone) ==
  cancelledQueued' =
    IF gone = {} \/ cancelledQueued = Untracked THEN cancelledQueued
    ELSE {<<t[1], t[2], t[3]>> : t \in gone}

\* history: a day is being left, gone are the queued snapshots discarded
NoteLeft(gone) ==
  cancelledQueued' =
    IF cancelledQueued = Untracked THEN Untracked
    ELSE {<<t[1], t[2], t[3]>> : t \in gone}

\* history: the word list is loaded or the level is left
NoteLoaded ==
  cancelledQueued' = IF cancelledQueued = Untracked THEN Untracked ELSE {}

----------------------------------------------------------------------------
(* Session (App.jsx:541-569) *)

\* onAuthStateChanged callback: setUser(u); setLoadingUser(false)
AuthStateChanged(u) ==
  /\ user' = u
  /\ loadingUser' = FALSE
  /\ signingOut' = FALSE
  /\ alert' = ""
  /\ UNCHANGED <<level, day, uiVars, listenerVars, effectDeps, daysCleanup,
                 wordsCleanup, store, writes, exportFile, deletedExpanded, dayOneUpserts, cancelledQueued, singleDocVars>>

\* the first callback: a persisted session or none
SessionResolved ==
  /\ loadingUser /\ ~EffectsPending
  /\ \E u \in {Null, TheUser} : AuthStateChanged(u)

\* loginWithGoogle: signInWithPopup succeeds for account u
loginWithGoogle(u) ==
  /\ ~loadingUser /\ user = Null /\ ~EffectsPending
  /\ AuthStateChanged(u)

\* the session ends without logout(): sign-out in another tab, revoked token
SessionLost ==
  /\ Interactive /\ ~signingOut
  /\ AuthStateChanged(Null)

\* signOut(auth) awaited by logout() completes
SignedOut ==
  /\ signingOut /\ ~EffectsPending
  /\ AuthStateChanged(Null)

logout ==
  /\ Interactive
  /\ phraseListeners' = UnsubscribeAll(phraseListeners, phrasesUnsubsRef)
  /\ phrasePending' = phrasePending \cap BagToSet(phraseListeners')
  /\ phrasesUnsubsRef' = EmptyMap
  /\ phrasesByWord' = EmptyMap /\ phrasesFrom' = EmptyMap
  /\ expandedWords' = EmptyMap
  /\ words' = << >> /\ wordsFrom' = NoTarget
  /\ days' = << >> /\ daysFrom' = NoTarget
  /\ level' = Null /\ day' = Null
  /\ signingOut' = TRUE
  /\ alert' = ""
  /\ NoteLeft(phrasePending \ phrasePending')
  /\ UNCHANGED <<user, loadingUser, effectDeps, daysCleanup, wordsCleanup,
                 store, dayListeners, wordListeners, dayPending, wordPending,
                 writes, exportFile, deletedExpanded, dayOneUpserts, singleDocVars>>

----------------------------------------------------------------------------
(* Navigation (App.jsx:812-815, 845, 888, 939-942) *)

\* level card: setLevel(lvl); setDay(null)
selectLevel(lvl) ==
  /\ LevelSelect
  /\ level' = lvl /\ day' = Null
  /\ alert' = ""
  /\ UNCHANGED <<user, loadingUser, signingOut, uiVars, listenerVars,
                 effectDeps, daysCleanup, wordsCleanup, store, writes,
                 exportFile, deletedExpanded, dayOneUpserts, cancelledQueued, singleDocVars>>

\* "Volver": setLevel(null)
backToLevels ==
  /\ DaySelect
  /\ level' = Null
  /\ alert' = ""
  /\ NoteLoaded
  /\ UNCHANGED <<user, loadingUser, day, signingOut, uiVars, listenerVars,
                 effectDeps, daysCleanup, wordsCleanup, store, writes,
                 exportFile, deletedExpanded, dayOneUpserts, singleDocVars>>

\* day card of the rendered list: setDay(d.id)
selectDay(d) ==
  /\ DaySelect
  /\ d \in Ids(days)
  /\ day' = d
  /\ alert' = ""
  /\ UNCHANGED <<user, loadingUser, level, signingOut, uiVars, listenerVars,
                 effectDeps, daysCleanup, wordsCleanup, store, writes,
                 exportFile, deletedExpanded, dayOneUpserts, cancelledQueued, singleDocVars>>

\* variant: resetDayUI without setWords([])
resetDayUI_keepsWords ==
  /\ phraseListeners' = UnsubscribeAll(phraseListeners, phrasesUnsubsRef)
  /\ phrasePending' = phrasePending \cap BagToSet(phraseListeners')
  /\ phrasesUnsubsRef' = EmptyMap
  /\ UNCHANGED <<words, wordsFrom>>
  /\ phrasesByWord' = EmptyMap /\ phrasesFrom' = EmptyMap
  /\ expandedWords' = EmptyMap

\* variant: resetDayUI without setExpandedWords({})
resetDayUI_keepsExpanded ==
  /\ phraseListeners' = UnsubscribeAll(phraseListeners, phrasesUnsubsRef)
  /\ phrasePending' = phrasePending \cap BagToSet(phraseListeners')
  /\ phrasesUnsubsRef' = EmptyMap
  /\ words' = << >> /\ wordsFrom' = NoTarget
  /\ phrasesByWord' = EmptyMap /\ phrasesFrom' = EmptyMap
  /\ UNCHANGED expandedWords

resetDayUI ==
  /\ phraseListeners' = UnsubscribeAll(phraseListeners, phrasesUnsubsRef)
  /\ phrasePending' = phrasePending \cap BagToSet(phraseListeners')
  /\ phrasesUnsubsRef' = EmptyMap
  /\ words' = << >> /\ wordsFrom' = NoTarget
  /\ phrasesByWord' = EmptyMap /\ phrasesFrom' = EmptyMap
  /\ expandedWords' = EmptyMap

\* "Días": resetDayUI(); setDay(null)
backToDays ==
  /\ DayDetail
  /\ resetDayUI
  /\ day' = Null
  /\ alert' = ""
  /\ UNCHANGED <<user, loadingUser, level, signingOut, days, daysFrom,
                 effectDeps, daysCleanup, wordsCleanup, store, dayListeners,
                 wordListeners, dayPending, wordPending, writes, exportFile,
                 deletedExpanded, dayOneUpserts, singleDocVars>>
  /\ NoteLeft(phrasePending \ phrasePending')

----------------------------------------------------------------------------
(* Effects with dependencies [user, level, day] (App.jsx:571-632).  When   *)
(* a dependency changed, React runs the cleanups of the previous run, then *)
(* the two effect bodies.                                                  *)

\* variant: the day-list effect does not test day
DaysEffectOn_anyDay == user # Null /\ level # Null

\* day-list effect: active while a level is open and no day is
DaysEffectOn == user # Null /\ level # Null /\ day = Null

\* word-list effect: active while a day is open
WordsEffectOn == user # Null /\ level # Null /\ day # Null

\* variant: the day-list effect returns no cleanup
DaysEffectCleanup_none == dayListeners

\* return () => unsub() of the previous day-list effect run
DaysEffectCleanup == Unsubscribe(dayListeners, daysCleanup)

\* variant: the word-list effect returns no cleanup
WordsEffectCleanup_none == wordListeners

\* return () => unsub() of the previous word-list effect run
WordsEffectCleanup == Unsubscribe(wordListeners, wordsCleanup)

RunEffects ==
  /\ EffectsPending
  /\ effectDeps' = <<user, level, day>>
  /\ LET dayL  == DaysEffectCleanup
         wordL == WordsEffectCleanup
         dayL2 == IF DaysEffectOn THEN dayL (+) SetToBag({<<user, level>>}) ELSE dayL
         wordL2 == IF WordsEffectOn
                     THEN wordL (+) SetToBag({<<user, level, day>>}) ELSE wordL
     IN /\ dayListeners' = dayL2
        /\ daysCleanup' = IF DaysEffectOn THEN <<user, level>> ELSE NoTarget
        /\ wordListeners' = wordL2
        /\ wordsCleanup' = IF WordsEffectOn THEN <<user, level, day>> ELSE NoTarget
        /\ wordPending' =
             (wordPending \cap BagToSet(wordL))
               \cup (IF WordsEffectOn THEN {<<user, level, day>>} ELSE {})
        /\ IF WordsEffectOn
             THEN \* clear the UI, stop the phrase listeners, ensure the day doc
                  /\ words' = << >> /\ wordsFrom' = NoTarget
                  /\ phrasesByWord' = EmptyMap /\ phrasesFrom' = EmptyMap
                  /\ expandedWords' = EmptyMap
                  /\ phraseListeners' =
                       UnsubscribeAll(phraseListeners, phrasesUnsubsRef)
                  /\ phrasePending' = phrasePending \cap BagToSet(phraseListeners')
                  /\ phrasesUnsubsRef' = EmptyMap
                  /\ store' = SetDay(store, user, level, day)
                  /\ dayPending' =
                       (dayPending \cap BagToSet(dayL))
                         \cup ({<<user, level>>} \cap BagToSet(dayL2))
             ELSE /\ UNCHANGED <<words, wordsFrom, phrasesByWord, phrasesFrom,
                                 expandedWords, phraseListeners, phrasePending,
                                 phrasesUnsubsRef, store>>
                  /\ dayPending' =
                       (dayPending \cap BagToSet(dayL))
                         \cup (IF DaysEffectOn THEN {<<user, level>>} ELSE {})
  /\ alert' = ""
  /\ dayOneUpserts' = 0
  /\ NoteCancelled((wordPending \ BagToSet(WordsEffectCleanup))
                     \cup (phrasePending \ phrasePending'))
  /\ UNCHANGED <<navVars, days, daysFrom, writes, exportFile, deletedExpanded,
                 singleDocVars>>

----------------------------------------------------------------------------
(* Snapshot callbacks (App.jsx:576-583, 616-623, 700-707) *)

\* variant: the items are mapped with showEs: true
Shown_visible(docs) ==
  [i \in 1..Len(docs) |->
     [id |-> docs[i].id, en |-> docs[i].en, es |-> docs[i].es, showEs |-> TRUE]]

\* snap.docs.map(d => ({id: d.id, ...d.data(), showEs: false}))
Shown(docs) ==
  [i \in 1..Len(docs) |->
     [id |-> docs[i].id, en |-> docs[i].en, es |-> docs[i].es, showEs |-> FALSE]]

\* variant: day "1" is upserted on every day-list snapshot
EnsureDayOne_always(st, uid, lvl, next) == SetDay(st, uid, lvl, "1")

\* if (next.length === 0) setDoc(dayDocRef(uid, level, "1"), ...)
EnsureDayOne(st, uid, lvl, next) ==
  IF Len(next) = 0 THEN SetDay(st, uid, lvl, "1") ELSE st

\* day-list listener of target = <<uid, level>>: an empty list creates
\* day "1"
DaysSnapshot(target) ==
  /\ ~EffectsPending
  /\ target \in dayPending
  /\ LET uid == target[1]
         lvl == target[2]
         next == DaysQuery(store, uid, lvl, levelDaysCol(store, uid, lvl))
     IN /\ days' = next
        /\ daysFrom' = target
        /\ store' = EnsureDayOne(store, uid, lvl, next)
        /\ alert' = ""
        /\ IF Len(next) = 0
             THEN /\ dayPending' = dayPending
                  /\ dayOneUpserts' = dayOneUpserts + 1
             ELSE /\ dayPending' = dayPending \ {target}
                  /\ dayOneUpserts' = dayOneUpserts
  /\ UNCHANGED <<navVars, words, wordsFrom, phrasesByWord, phrasesFrom,
                 expandedWords, phrasesUnsubsRef, effectDeps, daysCleanup,
                 wordsCleanup, dayListeners, wordListeners, phraseListeners,
                 wordPending, phrasePending, writes, exportFile,
                 deletedExpanded, cancelledQueued, singleDocVars>>

\* variant: the word-list callback subscribes to the phrases of every
\* listed word
WordsSnapshot_eager(target) ==
  /\ ~EffectsPending
  /\ target \in wordPending
  /\ words' =
       Shown(Limit(wordsCol(store, target[1], target[2], target[3]), MAX_WORDS))
  /\ wordsFrom' = target
  /\ wordPending' = wordPending \ {target}
  /\ LET new == {<<target[1], target[2], target[3], w>> :
                   w \in (Ids(words') \cap Focus) \ DOMAIN phrasesUnsubsRef}
     IN /\ phraseListeners' = phraseListeners (+) SetToBag(new)
        /\ phrasePending' = phrasePending \cup new
        /\ phrasesUnsubsRef' =
             [w \in DOMAIN phrasesUnsubsRef \cup {t[4] : t \in new} |->
                IF w \in DOMAIN phrasesUnsubsRef THEN phrasesUnsubsRef[w]
                ELSE <<target[1], target[2], target[3], w>>]
  /\ alert' = ""
  /\ UNCHANGED <<navVars, days, daysFrom, phrasesByWord, phrasesFrom,
                 expandedWords, effectDeps, daysCleanup, wordsCleanup, store,
                 dayListeners, wordListeners, dayPending, writes, exportFile,
                 deletedExpanded, dayOneUpserts, singleDocVars>>
  /\ NoteLoaded

\* word-list listener of target = <<uid, level, dayId>>
WordsSnapshot(target) ==
  /\ ~EffectsPending
  /\ target \in wordPending
  /\ words' =
       Shown(Limit(wordsCol(store, target[1], target[2], target[3]), MAX_WORDS))
  /\ wordsFrom' = target
  /\ wordPending' = wordPending \ {target}
  /\ alert' = ""
  /\ UNCHANGED <<navVars, days, daysFrom, phrasesByWord, phrasesFrom,
                 expandedWords, phrasesUnsubsRef, effectDeps, daysCleanup,
                 wordsCleanup, store, dayListeners, wordListeners,
                 phraseListeners, dayPending, phrasePending, writes,
                 exportFile, deletedExpanded, dayOneUpserts, singleDocVars>>
  /\ NoteLoaded

\* variant: the error callback only logs the error
WordsError_keepsWords(target) ==
  /\ ~EffectsPending
  /\ BagIn(target, wordListeners)
  /\ wordListeners' = wordListeners (-) SetToBag({target})
  /\ wordPending' = wordPending \ {target}
  /\ alert' = ""
  /\ UNCHANGED <<navVars, uiVars, phrasesUnsubsRef, effectDeps, daysCleanup,
                 wordsCleanup, store, dayListeners, phraseListeners,
                 dayPending, phrasePending, writes, exportFile,
                 deletedExpanded, dayOneUpserts, cancelledQueued, singleDocVars>>

\* error callback of the word-list listener of target (permissions, rules):
\* setWords([]).  The store delivers nothing more to a listener after its
\* error.
WordsError(target) ==
  /\ ~EffectsPending
  /\ BagIn(target, wordListeners)
  /\ words' = << >> /\ wordsFrom' = NoTarget
  /\ wordListeners' = wordListeners (-) SetToBag({target})
  /\ wordPending' = wordPending \ {target}
  /\ alert' = ""
  /\ UNCHANGED <<navVars, days, daysFrom, phrasesByWord, phrasesFrom,
                 expandedWords, phrasesUnsubsRef, effectDeps, daysCleanup,
                 wordsCleanup, store, dayListeners, phraseListeners,
                 dayPending, phrasePending, writes, exportFile,
                 deletedExpanded, dayOneUpserts, cancelledQueued, singleDocVars>>

\* variant: the phrase callback sets the whole map to the one list
PhrasesSnapshot_whole(target) ==
  /\ ~EffectsPending
  /\ target \in phrasePending
  /\ phrasesByWord' =
       Put(EmptyMap, target[4],
           Shown(Limit(phrasesCol(store, target[1], target[2], target[3],
                                  target[4]),
                       MAX_PHRASES)))
  /\ phrasesFrom' = Put(EmptyMap, target[4], target)
  /\ phrasePending' = phrasePending \ {target}
  /\ alert' = ""
  /\ UNCHANGED <<navVars, days, daysFrom, words, wordsFrom, expandedWords,
                 phrasesUnsubsRef, effectDeps, daysCleanup, wordsCleanup,
                 store, dayListeners, wordListeners, phraseListeners,
                 dayPending, wordPending, writes, exportFile,
                 deletedExpanded, dayOneUpserts, cancelledQueued, singleDocVars>>

\* phrase listener of target = <<uid, level, dayId, wordId>>
PhrasesSnapshot(target) ==
  /\ ~EffectsPending
  /\ target \in phrasePending
  /\ phrasesByWord' =
       Put(phrasesByWord, target[4],
           Shown(Limit(phrasesCol(store, target[1], target[2], target[3],
                                  target[4]),
                       MAX_PHRASES)))
  /\ phrasesFrom' = Put(phrasesFrom, target[4], target)
  /\ phrasePending' = phrasePending \ {target}
  /\ alert' = ""
  /\ UNCHANGED <<navVars, days, daysFrom, words, wordsFrom, expandedWords,
                 phrasesUnsubsRef, effectDeps, daysCleanup, wordsCleanup,
                 store, dayListeners, wordListeners, phraseListeners,
                 dayPending, wordPending, writes, exportFile, deletedExpanded, dayOneUpserts, cancelledQueued, singleDocVars>>

----------------------------------------------------------------------------
(* CRUD handlers (App.jsx:200-210, 636-747) *)

\* what the user types into the add-day dialog
DayInputs == DayIds \cup {"0", "abc"}

\* further texts the dialog accepts, and the keys of the cards that can
\* then be listed
DayTexts == DayInputs \cup {"0.5", "1.5", "-1"}

DayKeys == DayIds \cup {"0"}

\* String(Math.trunc(n)) of a positive n, given in tenths
DayKey(n) == IF n \div 10 = 0 THEN "0" ELSE Digits[n \div 10]

addDay(dayId) ==
  Write(SetDay(store, user, level, dayId), {<<user, level>>}, {}, {})

\* AddDayDialog.submit with text typed: invalid numbers and keys already in
\* the rendered list return without calling onAddDay
AddDaySubmit(text) ==
  /\ DaySelect
  /\ LET n == Number(text)
     IN IF ~n.finite \/ n.tenths <= 0
          THEN UNCHANGED <<store, dayPending, wordPending, phrasePending,
                           writes>>
          ELSE IF DayKey(n.tenths) \in Ids(days)
            THEN UNCHANGED <<store, dayPending, wordPending, phrasePending,
                             writes>>
            ELSE /\ writes < MaxWrites
                 /\ writes' = writes + 1
                 /\ addDay(DayKey(n.tenths))
  /\ alert' = ""
  /\ UNCHANGED <<navVars, uiVars, phrasesUnsubsRef, effectDeps, daysCleanup,
                 wordsCleanup, dayListeners, wordListeners, phraseListeners,
                 exportFile, deletedExpanded, dayOneUpserts, cancelledQueued, singleDocVars>>

\* variant: deleting a day also deletes the words and phrases under it
DeleteDayDoc_cascade(st, uid, lvl, dayId) ==
  [days |-> Drop(st.days, <<uid, lvl, dayId>>),
   words |-> Drop(st.words, <<uid, lvl, dayId>>),
   phrases |->
     [k \in {q \in DOMAIN st.phrases :
               <<q[1], q[2], q[3]>> # <<uid, lvl, dayId>>} |-> st.phrases[k]]]

\* deleteDoc(dayDocRef(uid, level, dayId)): subcollections are not deleted
DeleteDayDoc(st, uid, lvl, dayId) ==
  [st EXCEPT !.days = Drop(@, <<uid, lvl, dayId>>)]

\* trash button of a rendered day card
deleteDay(dayId) ==
  /\ DaySelect
  /\ writes < MaxWrites
  /\ writes' = writes + 1
  /\ dayId \in Ids(days)
  /\ Write(DeleteDayDoc(store, user, level, dayId), {<<user, level>>}, {}, {})
  /\ day' = IF day = dayId THEN Null ELSE day
  /\ alert' = ""
  /\ UNCHANGED <<user, loadingUser, level, signingOut, uiVars,
                 phrasesUnsubsRef, effectDeps, daysCleanup, wordsCleanup,
                 dayListeners, wordListeners, phraseListeners, exportFile, deletedExpanded, dayOneUpserts, cancelledQueued, singleDocVars>>

\* what the dialogs submit: en and es trimmed and non-empty
Entries == {[en |-> "cat", es |-> "gato"], [en |-> "dog", es |-> "perro"]}

\* addDoc(col, {en, es, createdAt}) with the next auto-id
AddDoc(docs, entry) ==
  Append(docs, [id |-> AutoId(writes + 1), en |-> entry.en, es |-> entry.es])

addWord(entry) ==
  /\ DayDetail
  /\ IF Len(words) >= MAX_WORDS
       THEN /\ alert' = "Máximo 40 palabras por día."
            /\ UNCHANGED <<store, dayPending, wordPending, phrasePending,
                           writes>>
       ELSE /\ writes < MaxWrites
            /\ writes' = writes + 1
            /\ alert' = ""
            /\ Write([store EXCEPT !.words =
                        Put(@, <<user, level, day>>,
                            AddDoc(wordsCol(store, user, level, day), entry))],
                     {}, {<<user, level, day>>}, {})
  /\ UNCHANGED <<navVars, uiVars, phrasesUnsubsRef, effectDeps, daysCleanup,
                 wordsCleanup, dayListeners, wordListeners, phraseListeners,
                 exportFile, deletedExpanded, dayOneUpserts, cancelledQueued, singleDocVars>>

\* what the user types into the en and es fields of the add-word and
\* add-phrase dialogs
DialogInputs ==
  {[en |-> " cat ", es |-> "gato"], [en |-> " ", es |-> "gato"],
   [en |-> "dog", es |-> ""]}

\* String.prototype.trim on the texts of DialogInputs
Trim(text) ==
  CASE text = " cat " -> "cat"
    [] text = " " -> ""
    [] OTHER -> text

\* a submit that returns before calling its handler
SubmitIgnored ==
  /\ alert' = ""
  /\ UNCHANGED <<navVars, uiVars, listenerVars, effectDeps, daysCleanup,
                 wordsCleanup, store, writes, exportFile, deletedExpanded,
                 dayOneUpserts, cancelledQueued, singleDocVars>>

\* AddWordDialog.submit: if (!en.trim() || !es.trim()) return
AddWordSubmit(typed) ==
  /\ DayDetail
  /\ IF Trim(typed.en) = "" \/ Trim(typed.es) = ""
       THEN SubmitIgnored
       ELSE addWord([en |-> Trim(typed.en), es |-> Trim(typed.es)])

\* variant: deleteWord also removes the word from the in-memory list
deleteWord_optimistic(wordId) ==
  /\ DayDetail
  /\ writes < MaxWrites
  /\ writes' = writes + 1
  /\ wordId \in Ids(words) \cap Focus
  /\ phraseListeners' =
       Unsubscribe(phraseListeners, Get(phrasesUnsubsRef, wordId, NoTarget))
  /\ phrasesUnsubsRef' = Drop(phrasesUnsubsRef, wordId)
  /\ expandedWords' = Drop(expandedWords, wordId)
  /\ phrasesByWord' = Drop(phrasesByWord, wordId)
  /\ phrasesFrom' = Drop(phrasesFrom, wordId)
  /\ store' = [store EXCEPT !.words =
                 PutCol(@, <<user, level, day>>,
                        Without(wordsCol(store, user, level, day), {wordId}))]
  /\ wordPending' = wordPending \cup ({<<user, level, day>>} \cap BagToSet(wordListeners))
  /\ phrasePending' = phrasePending \cap BagToSet(phraseListeners')
  /\ alert' = ""
  /\ deletedExpanded' =
       IF Get(expandedWords, wordId, FALSE)
         THEN deletedExpanded \cup {<<user, level, day, wordId>>}
         ELSE deletedExpanded
  /\ words' = Without(words, {wordId})
  /\ UNCHANGED <<navVars, days, daysFrom, wordsFrom, effectDeps,
                 daysCleanup, wordsCleanup, dayListeners, wordListeners,
                 dayPending, exportFile, dayOneUpserts, singleDocVars>>
  /\ NoteCancelled(phrasePending \ phrasePending')

deleteWord(wordId) ==
  /\ DayDetail
  /\ writes < MaxWrites
  /\ writes' = writes + 1
  /\ wordId \in Ids(words) \cap Focus
  /\ phraseListeners' =
       Unsubscribe(phraseListeners, Get(phrasesUnsubsRef, wordId, NoTarget))
  /\ phrasesUnsubsRef' = Drop(phrasesUnsubsRef, wordId)
  /\ expandedWords' = Drop(expandedWords, wordId)
  /\ phrasesByWord' = Drop(phrasesByWord, wordId)
  /\ phrasesFrom' = Drop(phrasesFrom, wordId)
  /\ store' = [store EXCEPT !.words =
                 PutCol(@, <<user, level, day>>,
                        Without(wordsCol(store, user, level, day), {wordId}))]
  /\ wordPending' = wordPending \cup ({<<user, level, day>>} \cap BagToSet(wordListeners))
  /\ phrasePending' = phrasePending \cap BagToSet(phraseListeners')
  /\ alert' = ""
  /\ deletedExpanded' =
       IF Get(expandedWords, wordId, FALSE)
         THEN deletedExpanded \cup {<<user, level, day, wordId>>}
         ELSE deletedExpanded
  /\ UNCHANGED <<navVars, days, daysFrom, words, wordsFrom, effectDeps,
                 daysCleanup, wordsCleanup, dayListeners, wordListeners,
                 dayPending, exportFile, dayOneUpserts, singleDocVars>>
  /\ NoteCancelled(phrasePending \ phrasePending')

\* the list s with the showEs flag of item id flipped
FlipShowEs(s, id) ==
  [i \in 1..Len(s) |->
     IF s[i].id = id THEN [s[i] EXCEPT !.showEs = ~@] ELSE s[i]]

toggleWordEs(wordId) ==
  /\ DayDetail
  /\ wordId \in Ids(words) \cap Focus
  /\ words' = FlipShowEs(words, wordId)
  /\ alert' = ""
  /\ UNCHANGED <<navVars, days, daysFrom, wordsFrom, phrasesByWord,
                 phrasesFrom, expandedWords, listenerVars, effectDeps,
                 daysCleanup, wordsCleanup, store, writes, exportFile, deletedExpanded, dayOneUpserts, cancelledQueued, singleDocVars>>

\* variant: ensurePhrasesListener without the early return
ensurePhrasesListener_always(wordId) ==
  /\ phraseListeners' =
       phraseListeners (+) SetToBag({<<user, level, day, wordId>>})
  /\ phrasePending' = phrasePending \cup {<<user, level, day, wordId>>}
  /\ phrasesUnsubsRef' =
       Put(phrasesUnsubsRef, wordId, <<user, level, day, wordId>>)

\* subscribes to the phrases of wordId unless a handle is already kept
ensurePhrasesListener(wordId) ==
  IF wordId \in DOMAIN phrasesUnsubsRef
    THEN UNCHANGED <<phraseListeners, phrasePending, phrasesUnsubsRef>>
    ELSE /\ phraseListeners' =
              phraseListeners (+) SetToBag({<<user, level, day, wordId>>})
         /\ phrasePending' = phrasePending \cup {<<user, level, day, wordId>>}
         /\ phrasesUnsubsRef' =
              Put(phrasesUnsubsRef, wordId, <<user, level, day, wordId>>)

toggleExpand(wordId) ==
  /\ DayDetail
  /\ wordId \in Ids(words) \cap Focus
  /\ expandedWords' = Put(expandedWords, wordId, ~Get(expandedWords, wordId, FALSE))
  /\ ensurePhrasesListener(wordId)
  /\ alert' = ""
  /\ UNCHANGED <<navVars, days, daysFrom, words, wordsFrom, phrasesByWord,
                 phrasesFrom, effectDeps, daysCleanup, wordsCleanup, store,
                 dayListeners, wordListeners, dayPending, wordPending,
                 writes, exportFile, deletedExpanded, dayOneUpserts, cancelledQueued, singleDocVars>>

addPhrase(wordId, entry) ==
  /\ DayDetail
  /\ wordId \in Ids(words) \cap Focus
  /\ IF Len(Get(phrasesByWord, wordId, << >>)) >= MAX_PHRASES
       THEN /\ alert' = "Máximo 10 frases por palabra."
            /\ UNCHANGED <<store, dayPending, wordPending, phrasePending,
                           writes>>
       ELSE /\ writes < MaxWrites
            /\ writes' = writes + 1
            /\ alert' = ""
            /\ Write([store EXCEPT !.phrases =
                        Put(@, <<user, level, day, wordId>>,
                            AddDoc(phrasesCol(store, user, level, day, wordId), entry))],
                     {}, {}, {<<user, level, day, wordId>>})
  /\ UNCHANGED <<navVars, uiVars, phrasesUnsubsRef, effectDeps, daysCleanup,
                 wordsCleanup, dayListeners, wordListeners, phraseListeners,
                 exportFile, deletedExpanded, dayOneUpserts, cancelledQueued, singleDocVars>>

\* AddPhraseDialog.submit of the card of word wordId
AddPhraseSubmit(wordId, typed) ==
  /\ DayDetail
  /\ wordId \in Ids(words) \cap Focus
  /\ IF Trim(typed.en) = "" \/ Trim(typed.es) = ""
       THEN SubmitIgnored
       ELSE addPhrase(wordId, [en |-> Trim(typed.en), es |-> Trim(typed.es)])

\* the phrase cards of word wordId are rendered while its panel is expanded
PhraseShown(wordId, phraseId) ==
  /\ wordId \in Ids(words) \cap Focus
  /\ Get(expandedWords, wordId, FALSE)
  /\ phraseId \in Ids(Get(phrasesByWord, wordId, << >>)) \cap Focus

deletePhrase(wordId, phraseId) ==
  /\ DayDetail
  /\ writes < MaxWrites
  /\ writes' = writes + 1
  /\ PhraseShown(wordId, phraseId)
  /\ Write([store EXCEPT !.phrases =
              PutCol(@, <<user, level, day, wordId>>,
                     Without(phrasesCol(store, user, level, day, wordId), {phraseId}))],
           {}, {}, {<<user, level, day, wordId>>})
  /\ alert' = ""
  /\ UNCHANGED <<navVars, uiVars, phrasesUnsubsRef, effectDeps, daysCleanup,
                 wordsCleanup, dayListeners, wordListeners, phraseListeners,
                 exportFile, deletedExpanded, dayOneUpserts, cancelledQueued, singleDocVars>>

togglePhraseEs(wordId, phraseId) ==
  /\ DayDetail
  /\ PhraseShown(wordId, phraseId)
  /\ phrasesByWord' =
       Put(phrasesByWord, wordId, FlipShowEs(phrasesByWord[wordId], phraseId))
  /\ alert' = ""
  /\ UNCHANGED <<navVars, days, daysFrom, words, wordsFrom, phrasesFrom,
                 expandedWords, listenerVars, effectDeps, daysCleanup,
                 wordsCleanup, store, writes, exportFile, deletedExpanded, dayOneUpserts, cancelledQueued, singleDocVars>>

----------------------------------------------------------------------------
(* Export / import (App.jsx:361-454).  A parsed file is                    *)
(*   [json, hasLevels, levels], levels : level -> [days],                  *)
(*   days : dayId -> [words], words : wordId -> entry,                     *)
(*   entry = [null, en, es, phrases], phrases : phraseId -> [null, en, es] *)
(* json is FALSE when JSON.parse throws; null marks a JSON null entry; a   *)
(* property that is absent reads as Undefined.                             *)

Undefined == "undefined"

LevelSet == {LEVELS[i] : i \in 1..Len(LEVELS)}

\* the document exportAll builds: every level of LEVELS, the day documents
\* of the level, the words of each such day, the phrases of each such word
Exported(st, uid) ==
  [json |-> TRUE, hasLevels |-> TRUE,
   levels |->
     [lvl \in LevelSet |->
        [days |->
           [d \in levelDaysCol(st, uid, lvl) |->
              [words |->
                 LET ws == wordsCol(st, uid, lvl, d)
                 IN [w \in Ids(ws) |->
                       LET doc == ws[CHOOSE i \in 1..Len(ws) : ws[i].id = w]
                           ps  == phrasesCol(st, uid, lvl, d, w)
                       IN [null |-> FALSE, en |-> doc.en, es |-> doc.es,
                           phrases |->
                             [p \in Ids(ps) |->
                                LET pd == ps[CHOOSE i \in 1..Len(ps) : ps[i].id = p]
                                IN [null |-> FALSE, en |-> pd.en,
                                    es |-> pd.es]]]]]]]]]

\* x ?? ""
OrEmpty(x) == IF x = Undefined THEN "" ELSE x

\* the levels of LEVELS the loop of importAll does not skip
FileLevels(f) == {lvl \in LevelSet : lvl \in DOMAIN f.levels}

FileDays(f) ==
  UNION {{<<lvl, d>> : d \in DOMAIN f.levels[lvl].days} : lvl \in FileLevels(f)}

FileWords(f, lvl, d) == f.levels[lvl].days[d].words

\* wordData.en / phraseData.en on a null entry throws while the batch is
\* being built
BuildThrows(f) ==
  \E k \in FileDays(f) :
    LET ws == FileWords(f, k[1], k[2])
    IN \E w \in DOMAIN ws :
         \/ ws[w].null
         \/ \E p \in DOMAIN ws[w].phrases : ws[w].phrases[p].null

\* variant: es written from the en of the entry
BatchDocs_esFromEn(entries) ==
  LET order == Ascending(DOMAIN entries)
  IN [i \in 1..Len(order) |->
        [id |-> order[i], en |-> OrEmpty(entries[order[i]].en),
         es |-> OrEmpty(entries[order[i]].en)]]

\* the documents a set of file entries becomes: written in one batch they
\* share one createdAt and follow each other in document-id order
BatchDocs(entries) ==
  LET order == Ascending(DOMAIN entries)
  IN [i \in 1..Len(order) |->
        [id |-> order[i], en |-> OrEmpty(entries[order[i]].en),
         es |-> OrEmpty(entries[order[i]].es)]]

\* variant: the imported entries replace the collection
MergeCol_replace(docs, entries) == BatchDocs(entries)

\* batch.set(ref, fields, {merge: true}) of every entry of a collection
MergeCol(docs, entries) == Without(docs, DOMAIN entries) \o BatchDocs(entries)

FileWordCols(f, uid) ==
  {<<uid, k[1], k[2]>> : k \in {q \in FileDays(f) :
                                  DOMAIN FileWords(f, q[1], q[2]) # {}}}

FilePhraseCols(f, uid) ==
  UNION {{<<uid, k[1], k[2], w>> :
            w \in {x \in DOMAIN FileWords(f, k[1], k[2]) :
                     DOMAIN FileWords(f, k[1], k[2])[x].phrases # {}}}
         : k \in FileDays(f)}

\* batch.commit(): all day, word and phrase upserts of the file at once
Commit(st, uid, f) ==
  LET dayKeys == {<<uid, k[1], k[2]>> : k \in FileDays(f)}
      wordCols == FileWordCols(f, uid)
      phraseCols == FilePhraseCols(f, uid)
  IN [days |->
        [k \in DOMAIN st.days \cup dayKeys |->
           IF k \in dayKeys THEN [dayNumber |-> DayNumberOf(k[3])]
           ELSE st.days[k]],
      words |->
        [k \in DOMAIN st.words \cup wordCols |->
           IF k \in wordCols
             THEN MergeCol(Get(st.words, k, << >>), FileWords(f, k[2], k[3]))
             ELSE st.words[k]],
      phrases |->
        [k \in DOMAIN st.phrases \cup phraseCols |->
           IF k \in phraseCols
             THEN MergeCol(Get(st.phrases, k, << >>),
                           FileWords(f, k[2], k[3])[k[4]].phrases)
             ELSE st.phrases[k]]]

\* the try block up to batch.commit(): JSON.parse, the levels check and
\* the building of the batch
ImportRejected(f) == ~f.json \/ ~f.hasLevels \/ BuildThrows(f)

\* the entries of a file that are not null
NonNull(entries) == [x \in {y \in DOMAIN entries : ~entries[y].null} |-> entries[x]]

WithoutNulls(f) ==
  [f EXCEPT !.levels =
     [lvl \in DOMAIN f.levels |->
        [days |->
           [d \in DOMAIN f.levels[lvl].days |->
              [words |->
                 LET ws == NonNull(f.levels[lvl].days[d].words)
                 IN [w \in DOMAIN ws |->
                       [ws[w] EXCEPT !.phrases = NonNull(@)]]]]]]]

\* variant: every upsert written on its own (setDoc) instead of batched,
\* so the entries that are not null are written although the loop throws
ImportResult_unbatched(st, uid, f) ==
  IF ~f.json \/ ~f.hasLevels THEN st ELSE Commit(st, uid, WithoutNulls(f))

\* the store after importAll(file) when the store accepts the batch
ImportResult(st, uid, f) ==
  IF ImportRejected(f) THEN st ELSE Commit(st, uid, f)

ImportDone == "Importación completada (se mezcló con lo existente)."

ImportInvalid == "Import inválido. Debe ser un JSON exportado por esta app."

\* importAll(file); accepted is whether the store commits the batch
importAll(f, accepted) ==
  /\ Interactive
  /\ IF ~accepted
       THEN /\ alert' = ImportInvalid
            /\ ~ImportRejected(f)
            /\ UNCHANGED <<store, dayPending, wordPending, phrasePending,
                           writes>>
       ELSE IF ImportRejected(f)
         THEN /\ alert' = ImportInvalid
              /\ store' = ImportResult(store, user, f)
              /\ UNCHANGED <<dayPending, wordPending, phrasePending, writes>>
         ELSE /\ alert' = ImportDone
              /\ writes < MaxWrites
              /\ writes' = writes + 1
              /\ Write(ImportResult(store, user, f),
                       {<<user, k[1]>> : k \in FileDays(f)},
                       FileWordCols(f, user), FilePhraseCols(f, user))
  /\ UNCHANGED <<navVars, uiVars, phrasesUnsubsRef, effectDeps, daysCleanup,
                 wordsCleanup, dayListeners, wordListeners, phraseListeners,
                 exportFile, deletedExpanded, dayOneUpserts, cancelledQueued, singleDocVars>>

\* exportAll: the download is the only effect
exportAll ==
  /\ Interactive
  /\ exportFile' = <<Exported(store, user)>>
  /\ alert' = ""
  /\ UNCHANGED <<navVars, uiVars, listenerVars, effectDeps, daysCleanup,
                 wordsCleanup, store, writes, deletedExpanded, dayOneUpserts, cancelledQueued, singleDocVars>>

\* file entries
Entry(en, es, phrases) == [null |-> FALSE, en |-> en, es |-> es, phrases |-> phrases]

NullEntry == [null |-> TRUE, en |-> Undefined, es |-> Undefined, phrases |-> EmptyMap]

PhraseEntry(en, es) == [null |-> FALSE, en |-> en, es |-> es]

JsonFile(levels) == [json |-> TRUE, hasLevels |-> TRUE, levels |-> levels]

\* not JSON at all
FileNotJson == [json |-> FALSE, hasLevels |-> FALSE, levels |-> EmptyMap]

\* JSON without a top-level levels key
FileNoLevels == [json |-> TRUE, hasLevels |-> FALSE, levels |-> EmptyMap]

\* a file with one level
OneLevel(lvl, dayObjs) == JsonFile([l \in {lvl} |-> [days |-> dayObjs]])

\* a day object holding one word
DayOf(wordId, entry) == [words |-> [w \in {wordId} |-> entry]]

\* overwrites stored word 1 and phrase 101 of A1 day "1", adds day "2"
FileMerge ==
  OneLevel("A1",
    [d \in {"1", "2"} |->
       IF d = "1"
         THEN DayOf(1, Entry("sun", "sol",
                             [p \in {101} |-> PhraseEntry("a sun", "un sol")]))
         ELSE DayOf(300, Entry("moon", "luna", EmptyMap))])

\* a valid day and word followed by a null word entry
FileNullWord ==
  OneLevel("A1",
    [d \in {"2"} |->
       [words |-> [w \in {300, 301} |->
                     IF w = 300 THEN Entry("moon", "luna", EmptyMap)
                     ELSE NullEntry]]])

\* a hand-edited file: a day key that is no number, a word without en
FileEdited ==
  OneLevel("A2", [d \in {"abc"} |-> DayOf(302, Entry(Undefined, "sol", EmptyMap))])

ImportFiles == {FileNotJson, FileNoLevels, FileMerge, FileNullWord, FileEdited}

----------------------------------------------------------------------------
(* Export followed by import into another account: the session is signed   *)
(* in to TheUser, whose tree is one of RoundTripStores (trees the handlers  *)
(* above produce, also with words left under a deleted day and phrases     *)
(* left under a deleted word); the user exports, signs out, signs in to    *)
(* the empty account OtherUser and imports the file.                       *)

RoundTripDays == {<<LEVELS[1], "1">>, <<LEVELS[2], "2">>}

RoundTripWords ==
  {<< >>,
   <<[id |-> 1, en |-> "cat", es |-> "gato"]>>,
   <<[id |-> 2, en |-> "dog", es |-> "perro"],
     [id |-> 1, en |-> "cat", es |-> "gato"]>>}

RoundTripPhrases == {<< >>, <<[id |-> 101, en |-> "a cat", es |-> "un gato"]>>}

\* the tree with day documents dayDocs, word lists wl and the phrase lists
\* pl of word 1
RoundTripStore(dayDocs, wl, pl) ==
  [days |->
     [k \in {<<TheUser, d[1], d[2]>> : d \in dayDocs} |->
        [dayNumber |-> DayNumberOf(k[3])]],
   words |->
     [k \in {<<TheUser, d[1], d[2]>> : d \in {x \in RoundTripDays : wl[x] # << >>}}
        |-> wl[<<k[2], k[3]>>]],
   phrases |->
     [k \in {<<TheUser, d[1], d[2], 1>> :
               d \in {x \in RoundTripDays : pl[x] # << >>}}
        |-> pl[<<k[2], k[3]>>]]]

RoundTripStores ==
  {RoundTripStore(dayDocs, wl, pl) :
     dayDocs \in SUBSET RoundTripDays,
     wl \in [RoundTripDays -> RoundTripWords],
     pl \in [RoundTripDays -> RoundTripPhrases]}

InitRoundTrip ==
  /\ user = TheUser /\ loadingUser = FALSE /\ level = Null /\ day = Null
  /\ days = << >> /\ words = << >>
  /\ phrasesByWord = EmptyMap /\ expandedWords = EmptyMap
  /\ phrasesUnsubsRef = EmptyMap
  /\ effectDeps = <<TheUser, Null, Null>>
  /\ daysCleanup = NoTarget /\ wordsCleanup = NoTarget
  /\ signingOut = FALSE
  /\ store \in RoundTripStores
  /\ dayListeners = EmptyBag /\ wordListeners = EmptyBag
  /\ phraseListeners = EmptyBag
  /\ dayPending = {} /\ wordPending = {} /\ phrasePending = {}
  /\ writes = 0
  /\ exportFile = NoFile
  /\ daysFrom = NoTarget /\ wordsFrom = NoTarget /\ phrasesFrom = EmptyMap
  /\ deletedExpanded = {}
  /\ dayOneUpserts = 0
  /\ cancelledQueued = Untracked
  /\ SingleDocUnused
  /\ alert = ""

NextRoundTrip ==
  \/ exportAll
  \/ logout
  \/ SignedOut
  \/ \E u \in {TheUser, OtherUser} : loginWithGoogle(u)
  \/ RunEffects
  \/ \E i \in DOMAIN exportFile, accepted \in BOOLEAN :
       importAll(exportFile[i], accepted)

SpecRoundTrip == InitRoundTrip /\ [][NextRoundTrip]_vars

----------------------------------------------------------------------------
(* The single-document version of the program (part_001): the study data  *)
(* of a user is the field studyData of the one document users/{uid}, held *)
(* in memory as the React state db and written back whenever db changes.  *)

\* the variables of the version with one document per entity
multiDocVars ==
  <<days, words, phrasesByWord, expandedWords, phrasesUnsubsRef, effectDeps,
    daysCleanup, wordsCleanup, signingOut, store, dayListeners,
    wordListeners, phraseListeners, dayPending, wordPending, phrasePending,
    exportFile, alert, daysFrom, wordsFrom, phrasesFrom, deletedExpanded,
    dayOneUpserts, cancelledQueued>>

EmptyDay == [words |-> << >>, phrases |-> << >>]

\* defaultDB(): every level with an empty day "1"
defaultDB == [lvl \in LevelSet |-> [days |-> Put(EmptyMap, "1", EmptyDay)]]

\* setDoc(ref, {studyData: data}, {merge: true}) on an existing document:
\* maps are merged field by field, arrays (words, phrases) are replaced
MergeStudyData(old, data) ==
  [lvl \in DOMAIN old \cup DOMAIN data |->
     IF lvl \notin DOMAIN data THEN old[lvl]
     ELSE IF lvl \notin DOMAIN old THEN data[lvl]
     ELSE [days |->
             [d \in DOMAIN old[lvl].days \cup DOMAIN data[lvl].days |->
                IF d \in DOMAIN data[lvl].days
                  THEN data[lvl].days[d] ELSE old[lvl].days[d]]]]

\* the save effect: if (!user) return; setDoc(ref, {studyData: db}, {merge})
SaveEffect(docs) ==
  IF user = Null THEN docs
  ELSE Put(docs, user,
           IF user \in DOMAIN docs THEN MergeStudyData(docs[user], db) ELSE db)

\* the effects of the last render are still to run
DocEffectsPending == docDeps # <<user, db>>

\* the load effect (dependency user) and the save effect (dependencies db,
\* user), in the order of their declaration
RunDocEffects ==
  /\ DocEffectsPending
  /\ docDeps' = <<user, db>>
  /\ firestore' = SaveEffect(firestore)
  /\ IF docDeps[1] # user
       THEN \* cleanup of the previous run, then onSnapshot(ref, ...)
            /\ docListener' = user
            /\ docPending' = (user # Null)
            /\ docLoaded' = FALSE
       ELSE /\ docPending' = (docPending \/ (docListener # Null
                                               /\ firestore' # firestore))
            /\ UNCHANGED <<docListener, docLoaded>>
  /\ UNCHANGED <<user, loadingUser, level, day, db, writes, multiDocVars>>

\* the callback of the load effect: an existing document replaces db, a
\* missing one is created from defaultDB()
DocSnapshot ==
  /\ ~DocEffectsPending
  /\ docListener # Null /\ docPending
  /\ docLoaded' = TRUE
  /\ IF docListener \in DOMAIN firestore
       THEN /\ db' = firestore[docListener]
            /\ docPending' = FALSE
            /\ UNCHANGED firestore
       ELSE /\ db' = defaultDB
            /\ firestore' = Put(firestore, docListener, defaultDB)
            /\ docPending' = TRUE
  /\ UNCHANGED <<user, loadingUser, level, day, docListener, docDeps, writes,
                 multiDocVars>>

\* onAuthStateChanged callback: the persisted session or none, a login
\* (loginWithGoogle), a logout (await signOut(auth))
DocAuthStateChanged(u) ==
  /\ ~DocEffectsPending
  /\ \/ loadingUser
     \/ ~loadingUser /\ (user = Null) # (u = Null)
  /\ user' = u
  /\ loadingUser' = FALSE
  /\ UNCHANGED <<level, day, singleDocVars, writes, multiDocVars>>

DocInteractive == ~DocEffectsPending /\ ~loadingUser /\ user # Null

goHome ==
  /\ DocInteractive /\ level # Null /\ day = Null
  /\ level' = Null /\ day' = Null
  /\ UNCHANGED <<user, loadingUser, singleDocVars, writes, multiDocVars>>

goLevel(lvl) ==
  /\ DocInteractive /\ level = Null
  /\ level' = lvl /\ day' = Null
  /\ UNCHANGED <<user, loadingUser, singleDocVars, writes, multiDocVars>>

\* day card of daysForLevel
goDay(d) ==
  /\ DocInteractive /\ level # Null /\ day = Null
  /\ level \in DOMAIN db /\ d \in DOMAIN db[level].days
  /\ day' = d
  /\ UNCHANGED <<user, loadingUser, level, singleDocVars, writes,
                 multiDocVars>>

\* updateDay(d => { d.words = [item, ...(d.words || [])] })
updateDay(item) ==
  /\ DocInteractive /\ level # Null /\ day # Null
  /\ writes < MaxWrites
  /\ writes' = writes + 1
  /\ LET lvlDays == db[level].days
         old == IF day \in DOMAIN lvlDays THEN lvlDays[day] ELSE EmptyDay
     IN db' = [db EXCEPT ![level] =
                 [days |-> Put(lvlDays, day,
                               [old EXCEPT !.words = <<item>> \o @])]]
  /\ UNCHANGED <<user, loadingUser, level, day, firestore, docListener,
                 docPending, docDeps, docLoaded, multiDocVars>>

\* the account has no document yet, or one with a word and a phrase in
\* day "1" of A1, or one that also has a day "2" in A1
StudiedDay ==
  [words   |-> <<[id |-> 1, en |-> "hello", es |-> "hola"]>>,
   phrases |-> <<[id |-> 101, en |-> "hello", es |-> "hola"]>>]

StudyData(dayKeys) ==
  [lvl \in LevelSet |->
     [days |-> IF lvl = LEVELS[1]
                 THEN [d \in dayKeys |-> StudiedDay]
                 ELSE Put(EmptyMap, "1", EmptyDay)]]

SingleDocStores ==
  {EmptyMap} \cup {Put(EmptyMap, TheUser, StudyData(k)) : k \in {{"1"}, {"1", "2"}}}

InitSingleDoc ==
  /\ user = Null /\ loadingUser = TRUE /\ level = Null /\ day = Null
  /\ db = defaultDB
  /\ firestore \in SingleDocStores
  /\ docListener = Null /\ docPending = FALSE
  /\ docDeps = <<Null, defaultDB>>
  /\ docLoaded = FALSE
  /\ writes = 0
  /\ days = << >> /\ words = << >>
  /\ phrasesByWord = EmptyMap /\ expandedWords = EmptyMap
  /\ phrasesUnsubsRef = EmptyMap
  /\ effectDeps = <<Null, Null, Null>>
  /\ daysCleanup = NoTarget /\ wordsCleanup = NoTarget
  /\ signingOut = FALSE
  /\ store = EmptyStore
  /\ dayListeners = EmptyBag /\ wordListeners = EmptyBag
  /\ phraseListeners = EmptyBag
  /\ dayPending = {} /\ wordPending = {} /\ phrasePending = {}
  /\ exportFile = NoFile
  /\ daysFrom = NoTarget /\ wordsFrom = NoTarget /\ phrasesFrom = EmptyMap
  /\ deletedExpanded = {}
  /\ dayOneUpserts = 0
  /\ cancelledQueued = Untracked
  /\ alert = ""

NextSingleDoc ==
  \/ \E u \in {Null, TheUser, OtherUser} : DocAuthStateChanged(u)
  \/ RunDocEffects
  \/ DocSnapshot
  \/ goHome
  \/ \E lvl \in Levels : goLevel(lvl)
  \/ \E d \in DayIds : goDay(d)
  \/ updateDay([id |-> AutoId(writes + 1), en |-> "cat", es |-> "gato"])

SpecSingleDoc == InitSingleDoc /\ [][NextSingleDoc]_vars

\* A signed-in session on an account whose day "1" of A1 holds two words,
\* each with one phrase, both of which the session clicks on.
TwoWordsStore ==
  [days    |-> Put(EmptyMap, <<TheUser, LEVELS[1], "1">>, [dayNumber |-> 1]),
   words   |-> Put(EmptyMap, <<TheUser, LEVELS[1], "1">>,
                   <<[id |-> 1, en |-> "hello", es |-> "hola"],
                     [id |-> AutoId(1), en |-> "cat", es |-> "gato"]>>),
   phrases |-> Put(Put(EmptyMap, <<TheUser, LEVELS[1], "1", 1>>,
                       <<[id |-> 101, en |-> "hello", es |-> "hola"]>>),
                   <<TheUser, LEVELS[1], "1", AutoId(1)>>,
                   <<[id |-> 101, en |-> "a cat", es |-> "un gato"]>>)]

InitTwoWords ==
  /\ user = TheUser /\ loadingUser = FALSE /\ level = Null /\ day = Null
  /\ days = << >> /\ words = << >>
  /\ phrasesByWord = EmptyMap /\ expandedWords = EmptyMap
  /\ phrasesUnsubsRef = EmptyMap
  /\ effectDeps = <<TheUser, Null, Null>>
  /\ daysCleanup = NoTarget /\ wordsCleanup = NoTarget
  /\ signingOut = FALSE
  /\ store = TwoWordsStore
  /\ dayListeners = EmptyBag /\ wordListeners = EmptyBag
  /\ phraseListeners = EmptyBag
  /\ dayPending = {} /\ wordPending = {} /\ phrasePending = {}
  /\ writes = 0
  /\ exportFile = NoFile
  /\ daysFrom = NoTarget /\ wordsFrom = NoTarget /\ phrasesFrom = EmptyMap
  /\ deletedExpanded = {}
  /\ dayOneUpserts = 0
  /\ cancelledQueued = Untracked
  /\ SingleDocUnused
  /\ alert = ""

NextTwoWords ==
  \/ selectLevel(LEVELS[1])
  \/ backToLevels
  \/ selectDay("1")
  \/ backToDays
  \/ RunEffects
  \/ \E t \in dayPending : DaysSnapshot(t)
  \/ \E t \in wordPending : WordsSnapshot(t)
  \/ \E t \in phrasePending : PhrasesSnapshot(t)
  \/ \E w \in Focus : toggleWordEs(w)
  \/ \E w \in Focus : toggleExpand(w)
  \/ \E w \in Focus : addPhrase(w, [en |-> "a cat", es |-> "un gato"])
  \/ \E w \in Focus, p \in Focus : togglePhraseEs(w, p)

SpecTwoWords == InitTwoWords /\ [][NextTwoWords]_vars

\* Day navigation with the history of discarded snapshots: the program
\* without its import.
InitLate ==
  /\ user = Null /\ loadingUser = TRUE /\ level = Null /\ day = Null
  /\ days = << >> /\ words = << >>
  /\ phrasesByWord = EmptyMap /\ expandedWords = EmptyMap
  /\ phrasesUnsubsRef = EmptyMap
  /\ effectDeps = <<Null, Null, Null>>
  /\ daysCleanup = NoTarget /\ wordsCleanup = NoTarget
  /\ signingOut = FALSE
  /\ store = InitialStore
  /\ dayListeners = EmptyBag /\ wordListeners = EmptyBag
  /\ phraseListeners = EmptyBag
  /\ dayPending = {} /\ wordPending = {} /\ phrasePending = {}
  /\ writes = 0
  /\ exportFile = NoFile
  /\ daysFrom = NoTarget /\ wordsFrom = NoTarget /\ phrasesFrom = EmptyMap
  /\ deletedExpanded = {}
  /\ dayOneUpserts = 0
  /\ cancelledQueued = {}
  /\ SingleDocUnused
  /\ alert = ""

NextLate ==
  \/ SessionResolved
  \/ loginWithGoogle(TheUser)
  \/ SessionLost
  \/ SignedOut
  \/ logout
  \/ \E lvl \in Levels : selectLevel(lvl)
  \/ backToLevels
  \/ \E d \in DayIds : selectDay(d)
  \/ backToDays
  \/ RunEffects
  \/ \E t \in dayPending : DaysSnapshot(t)
  \/ \E t \in wordPending : WordsSnapshot(t)
  \/ \E t \in phrasePending : PhrasesSnapshot(t)
  \/ \E t \in BagToSet(wordListeners) : WordsError(t)
  \/ \E text \in DayInputs : AddDaySubmit(text)
  \/ \E d \in DayIds : deleteDay(d)
  \/ \E typed \in DialogInputs : AddWordSubmit(typed)
  \/ \E w \in Focus : deleteWord(w)
  \/ \E w \in Focus : toggleWordEs(w)
  \/ \E w \in Focus : toggleExpand(w)
  \/ \E w \in Focus, typed \in DialogInputs : AddPhraseSubmit(w, typed)
  \/ \E w \in Focus, p \in Focus : deletePhrase(w, p)
  \/ \E w \in Focus, p \in Focus : togglePhraseEs(w, p)

SpecLate == InitLate /\ [][NextLate]_vars

\* The day screen with every text of the add-day dialog: a signed-in
\* session that opens levels, adds, opens and deletes days.
InitAddDay ==
  /\ user = TheUser /\ loadingUser = FALSE /\ level = Null /\ day = Null
  /\ days = << >> /\ words = << >>
  /\ phrasesByWord = EmptyMap /\ expandedWords = EmptyMap
  /\ phrasesUnsubsRef = EmptyMap
  /\ effectDeps = <<TheUser, Null, Null>>
  /\ daysCleanup = NoTarget /\ wordsCleanup = NoTarget
  /\ signingOut = FALSE
  /\ store = InitialStore
  /\ dayListeners = EmptyBag /\ wordListeners = EmptyBag
  /\ phraseListeners = EmptyBag
  /\ dayPending = {} /\ wordPending = {} /\ phrasePending = {}
  /\ writes = 0
  /\ exportFile = NoFile
  /\ daysFrom = NoTarget /\ wordsFrom = NoTarget /\ phrasesFrom = EmptyMap
  /\ deletedExpanded = {}
  /\ dayOneUpserts = 0
  /\ cancelledQueued = Untracked
  /\ SingleDocUnused
  /\ alert = ""

NextAddDay ==
  \/ \E lvl \in Levels : selectLevel(lvl)
  \/ backToLevels
  \/ \E d \in DayKeys : selectDay(d)
  \/ backToDays
  \/ RunEffects
  \/ \E t \in dayPending : DaysSnapshot(t)
  \/ \E t \in wordPending : WordsSnapshot(t)
  \/ \E text \in DayTexts : AddDaySubmit(text)
  \/ \E d \in DayKeys : deleteDay(d)

SpecAddDay == InitAddDay /\ [][NextAddDay]_vars

Next ==
  \/ SessionResolved
  \/ loginWithGoogle(TheUser)
  \/ SessionLost
  \/ SignedOut
  \/ logout
  \/ \E lvl \in Levels : selectLevel(lvl)
  \/ backToLevels
  \/ \E d \in DayIds : selectDay(d)
  \/ backToDays
  \/ RunEffects
  \/ \E t \in dayPending : DaysSnapshot(t)
  \/ \E t \in wordPending : WordsSnapshot(t)
  \/ \E t \in phrasePending : PhrasesSnapshot(t)
  \/ \E t \in BagToSet(wordListeners) : WordsError(t)
  \/ \E text \in DayInputs : AddDaySubmit(text)
  \/ \E d \in DayIds : deleteDay(d)
  \/ \E typed \in DialogInputs : AddWordSubmit(typed)
  \/ \E w \in Focus : deleteWord(w)
  \/ \E w \in Focus : toggleWordEs(w)
  \/ \E w \in Focus : toggleExpand(w)
  \/ \E w \in Focus, typed \in DialogInputs : AddPhraseSubmit(w, typed)
  \/ \E w \in Focus, p \in Focus : deletePhrase(w, p)
  \/ \E w \in Focus, p \in Focus : togglePhraseEs(w, p)
  \/ \E f \in ImportFiles, accepted \in BOOLEAN : importAll(f, accepted)

Spec == Init /\ [][Next]_vars

----------------------------------------------------------------------------
(* Properties *)

\* C1: at most one day-list subscription is active in every state, so the
\* previous one is cancelled no later than the next is established.
C1_OneDayListSubscription == BagCardinality(dayListeners) <= 1

\* the day-list listener of A2 is active while the in-memory list still is
\* the one loaded from A1: the user switched levels
C1_LevelSwitched ==
  /\ BagIn(<<TheUser, LEVELS[2]>>, dayListeners)
  /\ daysFrom = <<TheUser, LEVELS[1]>>

\* C2: while a day is displayed, every word and phrase in memory was loaded
\* from that day.
C2_NoItemOfAnotherDay ==
  (user # Null /\ level # Null /\ day # Null) =>
    /\ words # << >> => wordsFrom = <<user, level, day>>
    /\ \A w \in DOMAIN phrasesByWord :
         phrasesByWord[w] # << >> => phrasesFrom[w] = <<user, level, day, w>>

\* day "1" of A2 is displayed after the words of A1 day "1" had been loaded
\* (word 1 was deleted from its rendered list)
C2_EnteredAnotherDay ==
  /\ user # Null /\ level = LEVELS[2] /\ day = "1"
  /\ 1 \notin Ids(wordsCol(store, TheUser, LEVELS[1], "1"))

\* C3: an add-Word attempt for a day that holds MAX_WORDS words leaves the
\* store and the in-memory word list unchanged.
C3_FullDayRejectsAddWord ==
  [][\A e \in Entries :
       (addWord(e) /\ Len(wordsCol(store, user, level, day)) >= MAX_WORDS)
         => (store' = store /\ words' = words)]_vars

\* C4: an add-Phrase attempt for a word that has MAX_PHRASES phrases leaves
\* the store unchanged, expanded or not.
C4_FullWordRejectsAddPhrase ==
  [][\A w \in Focus, e \in Entries :
       (addPhrase(w, e)
          /\ Len(phrasesCol(store, user, level, day, w)) >= MAX_PHRASES)
         => store' = store]_vars

\* C5: at most one phrase subscription per word identifier is active, and
\* toggleExpand on a word that is already subscribed changes neither the
\* listeners nor the handle map.
C5_EnsureIdempotent ==
  /\ [](\A t \in BagToSet(phraseListeners) :
          /\ CopiesIn(t, phraseListeners) = 1
          /\ \A u \in BagToSet(phraseListeners) : u[4] = t[4] => u = t)
  /\ [][\A w \in Focus :
          (toggleExpand(w) /\ w \in DOMAIN phrasesUnsubsRef)
            => UNCHANGED <<phraseListeners, phrasesUnsubsRef>>]_vars

\* a word was expanded and collapsed again: ensurePhrasesListener ran twice
C5_ToggledTwice ==
  \E w \in DOMAIN expandedWords :
    /\ ~expandedWords[w]
    /\ w \in DOMAIN phrasesUnsubsRef
    /\ BagCardinality(phraseListeners) = 1

\* C6: once deleteWord ran on a word whose panel was expanded, no phrase
\* snapshot callback for that word fires.
C6_NoCallbackAfterDeleteWord ==
  [][\A t \in deletedExpanded : ~PhrasesSnapshot(t)]_vars

\* C7: deleteDay removes the day document, so the day list of the level has
\* a new snapshot without it, and leaves every word and phrase document.
C7_DeleteDayOnlyDayDoc ==
  [][\A d \in DayIds :
       deleteDay(d) =>
         /\ DOMAIN store'.days = DOMAIN store.days \ {<<user, level, d>>}
         /\ \A k \in DOMAIN store'.days : store'.days[k] = store.days[k]
         /\ <<user, level>> \in dayPending'
         /\ store'.words = store.words
         /\ store'.phrases = store.phrases]_vars

\* words are stored under a day that has no day document
C7_OrphanedWords == \E k \in DOMAIN store.words : k \notin DOMAIN store.days

\* the texts of an account: day documents, word and phrase documents with
\* their paths
DayDocsOf(st, uid) == {<<k[2], k[3]>> : k \in {q \in DOMAIN st.days : q[1] = uid}}

WordTexts(st, uid) ==
  UNION {{<<k[2], k[3], st.words[k][i].id, st.words[k][i].en, st.words[k][i].es>> :
            i \in 1..Len(st.words[k])}
         : k \in {q \in DOMAIN st.words : q[1] = uid}}

PhraseTexts(st, uid) ==
  UNION {{<<k[2], k[3], k[4], st.phrases[k][i].id, st.phrases[k][i].en,
            st.phrases[k][i].es>> : i \in 1..Len(st.phrases[k])}
         : k \in {q \in DOMAIN st.phrases : q[1] = uid}}

AccountEmpty(st, uid) ==
  DayDocsOf(st, uid) = {} /\ WordTexts(st, uid) = {} /\ PhraseTexts(st, uid) = {}

\* OtherUser, whose account is empty, imports the file that is the export
\* of TheUser's account, and the store commits the batch
ImportOfExport ==
  /\ user = OtherUser
  /\ AccountEmpty(store, OtherUser)
  /\ exportFile = <<Exported(store, TheUser)>>
  /\ importAll(exportFile[1], TRUE)

\* C8 as stated: after the round trip the importing account holds every
\* day, word and phrase of the exported account, with the same en and es at
\* the same path, and nothing else.
C8_RoundTripEverything ==
  [][ImportOfExport =>
       /\ DayDocsOf(store', OtherUser) = DayDocsOf(store, TheUser)
       /\ WordTexts(store', OtherUser) = WordTexts(store, TheUser)
       /\ PhraseTexts(store', OtherUser) = PhraseTexts(store, TheUser)]_vars

\* the words under a day that has a day document, and the phrases under
\* such a word
ListedWordTexts(st, uid) ==
  {t \in WordTexts(st, uid) : <<t[1], t[2]>> \in DayDocsOf(st, uid)}

ListedPhraseTexts(st, uid) ==
  {t \in PhraseTexts(st, uid) :
     \E w \in ListedWordTexts(st, uid) :
       <<w[1], w[2], w[3]>> = <<t[1], t[2], t[3]>>}

\* C8 amended: the round trip reproduces every day that has a day document,
\* every word under such a day and every phrase under such a word, with the
\* same en and es at the same path, and nothing else.
C8_RoundTripListed ==
  [][ImportOfExport =>
       /\ DayDocsOf(store', OtherUser) = DayDocsOf(store, TheUser)
       /\ WordTexts(store', OtherUser) = ListedWordTexts(store, TheUser)
       /\ PhraseTexts(store', OtherUser) = ListedPhraseTexts(store, TheUser)]_vars

\* OtherUser has imported an export that held words and phrases
C8_Imported ==
  /\ user = OtherUser /\ alert = ImportDone
  /\ PhraseTexts(store, OtherUser) # {}
  /\ Cardinality(WordTexts(store, OtherUser)) >= 2

\* every day, word and phrase upsert of file f is in the store
Upserted(st, uid, f) ==
  /\ ~BuildThrows(f)
  /\ \A k \in FileDays(f) :
       /\ <<uid, k[1], k[2]>> \in DOMAIN st.days
       /\ \A w \in DOMAIN FileWords(f, k[1], k[2]) :
            LET e == FileWords(f, k[1], k[2])[w]
            IN /\ <<k[1], k[2], w, OrEmpty(e.en), OrEmpty(e.es)>>
                    \in WordTexts(st, uid)
               /\ \A p \in DOMAIN e.phrases :
                    <<k[1], k[2], w, p, OrEmpty(e.phrases[p].en),
                      OrEmpty(e.phrases[p].es)>> \in PhraseTexts(st, uid)

\* C9: an import either commits every upsert of the file or leaves the
\* store unchanged; a file that is no JSON, has no levels key or throws
\* while the batch is built leaves it unchanged.
C9_ImportAllOrNothing ==
  [][\A f \in ImportFiles, accepted \in BOOLEAN :
       importAll(f, accepted) =>
         /\ store' = store \/ Upserted(store', user, f)
         /\ (~f.json \/ ~f.hasLevels \/ BuildThrows(f)) => store' = store]_vars

\* an import was rejected and nothing has been written
C9_Rejected == alert = ImportInvalid /\ store = InitialStore /\ writes = 0

\* the paths of the word and phrase documents of file f
FileWordPaths(f) ==
  UNION {{<<k[1], k[2], w>> : w \in DOMAIN FileWords(f, k[1], k[2])}
         : k \in FileDays(f)}

FilePhrasePaths(f) ==
  UNION {{<<t[1], t[2], t[3], p>> :
            p \in DOMAIN FileWords(f, t[1], t[2])[t[3]].phrases}
         : t \in {x \in FileWordPaths(f) : ~FileWords(f, x[1], x[2])[x[3]].null}}

\* the documents of a collection that a file does not name, in order
Kept(docs, paths, prefix) ==
  SelectSeq(docs, LAMBDA doc : Append(prefix, doc.id) \notin paths)

\* what an import of a file with these paths keeps of store st in store nw:
\* every document, and the fields and the order of those off the paths
KeepsOtherDocs(st, nw, dayPaths, wordPaths, phrasePaths) ==
  /\ DOMAIN st.days \subseteq DOMAIN nw.days
  /\ \A k \in DOMAIN st.days :
       <<k[2], k[3]>> \notin dayPaths => nw.days[k] = st.days[k]
  /\ \A k \in DOMAIN st.words :
       /\ k \in DOMAIN nw.words
       /\ Ids(st.words[k]) \subseteq Ids(nw.words[k])
       /\ Kept(nw.words[k], wordPaths, <<k[2], k[3]>>)
            = Kept(st.words[k], wordPaths, <<k[2], k[3]>>)
  /\ \A k \in DOMAIN st.phrases :
       /\ k \in DOMAIN nw.phrases
       /\ Ids(st.phrases[k]) \subseteq Ids(nw.phrases[k])
       /\ Kept(nw.phrases[k], phrasePaths, <<k[2], k[3], k[4]>>)
            = Kept(st.phrases[k], phrasePaths, <<k[2], k[3], k[4]>>)

\* C10: an import deletes no document and changes no day, word or phrase
\* document whose path is not in the file: those keep their fields and
\* their order (trivially so when the import leaves the store as it is).
C10_ImportKeepsOtherDocs ==
  [][\A f \in ImportFiles, accepted \in BOOLEAN :
       importAll(f, accepted) =>
         \/ store' = store
         \/ KeepsOtherDocs(store, store', FileDays(f), FileWordPaths(f),
                           FilePhrasePaths(f))]_vars

\* FileMerge was imported: word 300 is stored and day "1" of A1 still holds
\* its MAX_WORDS words, word 1 overwritten
C10_MergedWithExisting ==
  /\ alert = ImportDone
  /\ 300 \in Ids(wordsCol(store, TheUser, LEVELS[1], "2"))
  /\ Len(wordsCol(store, TheUser, LEVELS[1], "1")) = MAX_WORDS
  /\ <<LEVELS[1], "1", 1, "sun", "sol">> \in WordTexts(store, TheUser)

\* C11: when the sign-out started by logout completes, the session is
\* unauthenticated with level and day null, the day list, word list, phrase
\* lists and expanded flags empty, and no day-list, word-list or phrase
\* subscription active.
C11_LogoutClearsEverything ==
  [][SignedOut =>
       /\ user' = Null /\ level' = Null /\ day' = Null
       /\ days' = << >> /\ words' = << >>
       /\ phrasesByWord' = EmptyMap /\ expandedWords' = EmptyMap
       /\ dayListeners' = EmptyBag /\ wordListeners' = EmptyBag
       /\ phraseListeners' = EmptyBag /\ phrasesUnsubsRef' = EmptyMap]_vars

\* what a day-list snapshot delivered for target t does to the store: the
\* listener is the one of the level shown in DaySelect; an empty list
\* upserts day "1" with dayNumber 1 and changes nothing else, a list with
\* days writes nothing
DayOneEnsured(t) ==
  /\ DaySelect /\ t = <<user, level>>
  /\ IF levelDaysCol(store, t[1], t[2]) = {}
       THEN /\ DOMAIN store'.days = DOMAIN store.days \cup {<<t[1], t[2], "1">>}
            /\ store'.days[<<t[1], t[2], "1">>].dayNumber = 1
            /\ \A k \in DOMAIN store.days : store'.days[k] = store.days[k]
            /\ store'.words = store.words /\ store'.phrases = store.phrases
       ELSE store' = store

\* C12 as stated: an empty day-list snapshot in DaySelect upserts day "1",
\* a non-empty one writes nothing, and the upsert is made at most once per
\* level visit.
C12_DayOneOncePerVisit ==
  [][\A t \in dayPending :
       DaysSnapshot(t) => (DayOneEnsured(t) /\ dayOneUpserts' <= 1)]_vars

\* C12 amended: every empty day-list snapshot in DaySelect upserts day "1"
\* (also a second time in one visit, after the last day was deleted), a
\* non-empty one writes nothing.
C12_DayOneOnEveryEmptySnapshot ==
  [][\A t \in dayPending : DaysSnapshot(t) => DayOneEnsured(t)]_vars

\* day "1" of A2 was upserted twice by the listener of one level visit
C12_UpsertedTwice ==
  /\ dayOneUpserts = 2
  /\ "1" \in levelDaysCol(store, TheUser, LEVELS[2])

\* C13: whenever no day is displayed (no user, no level or no day) and the
\* effects of the render have run, no phrase subscription is active and
\* the subscription-handle map is empty.
C13_NoPhraseListenerOutsideDay ==
  (~EffectsPending /\ (user = Null \/ level = Null \/ day = Null)) =>
    (phraseListeners = EmptyBag /\ phrasesUnsubsRef = EmptyMap)

\* C14: when the word-list subscription reports an error, the in-memory
\* word list becomes empty and user, level and day are unchanged.
C14_WordErrorClearsList ==
  [][\A t \in BagToSet(wordListeners) :
       WordsError(t) => (words' = << >> /\ UNCHANGED navVars)]_vars

\* a day is displayed whose word listener ended with an error after words
\* had been loaded (one of them was expanded): the list is empty although
\* the day has words
C14_ErrorAfterLoad ==
  /\ DayDetail
  /\ wordListeners = EmptyBag
  /\ DOMAIN expandedWords # {}
  /\ words = << >>
  /\ wordsCol(store, user, level, day) # << >>

\* the step issues no store write
NoWrite == store' = store /\ writes' = writes

\* C15: a submit of the add-word or add-phrase dialog with an en or es that
\* is empty after trimming, a submit of the add-day dialog with a key the
\* level already has, and an import of a malformed file issue no store
\* write.
C15_ValidationNeverReachesStore ==
  [][/\ \A typed \in DialogInputs :
          (Trim(typed.en) = "" \/ Trim(typed.es) = "") =>
            /\ AddWordSubmit(typed) => NoWrite
            /\ \A w \in Focus : AddPhraseSubmit(w, typed) => NoWrite
     /\ \A text \in DayInputs :
          (/\ AddDaySubmit(text)
           /\ Number(text).finite /\ Number(text).tenths > 0
           /\ DayKey(Number(text).tenths) \in levelDaysCol(store, user, level))
            => NoWrite
     /\ \A f \in ImportFiles, accepted \in BOOLEAN :
          (importAll(f, accepted) /\ (~f.json \/ ~f.hasLevels)) => NoWrite]_vars

\* C16: every day in the store holds at most MAX_WORDS words.
C16_AtMostMaxWordsStored ==
  \A k \in DOMAIN store.words : Len(store.words[k]) <= MAX_WORDS

\* C17: once the effects of a render have run, a day-list subscription is
\* active only in DaySelect and targets the selected level of the user, and
\* a word-list subscription is active only in DayDetail and targets the
\* selected level and day; the only step that opens or cancels either is
\* the effects run after user, level or day changed (the store itself ends
\* a word-list subscription that reports an error).
C17_ListenersFollowNavigation ==
  /\ [](~EffectsPending =>
          /\ \A t \in BagToSet(dayListeners) :
               DaySelect /\ t = <<user, level>>
          /\ \A t \in BagToSet(wordListeners) :
               DayDetail /\ t = <<user, level, day>>)
  /\ [][(dayListeners' # dayListeners \/ wordListeners' # wordListeners)
          => \/ RunEffects
             \/ \E t \in BagToSet(wordListeners) : WordsError(t)]_vars

\* a day was entered from the day list: the word-list subscription of the
\* day is active and the day-list subscription is not
C17_DayEntered ==
  /\ DayDetail
  /\ BagIn(<<user, level, day>>, wordListeners)
  /\ dayListeners = EmptyBag
  /\ daysFrom = <<user, level>>

\* C18: whenever the session changes from no user to an authenticated
\* user, level and day are null afterwards (the level screen is shown).
C18_LoginLandsOnLevelSelect ==
  [][(user = Null /\ user' # Null) => (level' = Null /\ day' = Null)]_vars

\* C19: a phrase subscription for a word is active only if the word has an
\* expanded flag (it was expanded since the day was entered), and the only
\* step that opens a phrase subscription is toggleExpand.
C19_PhraseListenersLazy ==
  /\ [](\A t \in BagToSet(phraseListeners) : t[4] \in DOMAIN expandedWords)
  /\ [][(\E t \in BagToSet(phraseListeners') :
            CopiesIn(t, phraseListeners') > CopiesIn(t, phraseListeners))
          => \E w \in Focus : toggleExpand(w)]_vars

\* a day with MAX_WORDS listed words whose only phrase subscription is the
\* one of word 1, which was expanded
C19_OnlyExpandedSubscribed ==
  /\ DayDetail
  /\ Len(words) = MAX_WORDS
  /\ 1 \in DOMAIN expandedWords
  /\ phraseListeners = SetToBag({<<user, level, day, 1>>})

\* a step of an add or delete operation on Day, Word or Phrase
CrudStepExceptDeleteWord ==
  \/ \E text \in DayInputs : AddDaySubmit(text)
  \/ \E d \in DayIds : deleteDay(d)
  \/ \E typed \in DialogInputs : AddWordSubmit(typed)
  \/ \E w \in Focus, typed \in DialogInputs : AddPhraseSubmit(w, typed)
  \/ \E w \in Focus, ph \in Focus : deletePhrase(w, ph)

\* C20 as stated: no step of an add or delete operation changes the
\* in-memory day list, word list or phrase lists.
C20_WritesLeaveProjections ==
  [][(CrudStepExceptDeleteWord \/ \E w \in Focus : deleteWord(w))
       => UNCHANGED <<days, words, phrasesByWord>>]_vars

\* C20 amended: no step of an add or delete operation changes the
\* in-memory day list or word list; the phrase lists are unchanged too,
\* except that deleteWord removes the phrase list of the deleted word.
C20_OnlyDeleteWordDropsItsPhrases ==
  [][/\ UNCHANGED <<days, words, phrasesByWord>> \/ ~CrudStepExceptDeleteWord
     /\ \A w \in Focus :
          deleteWord(w) =>
            /\ UNCHANGED <<days, words>>
            /\ DOMAIN phrasesByWord' = DOMAIN phrasesByWord \ {w}
            /\ \A x \in DOMAIN phrasesByWord' :
                 phrasesByWord'[x] = phrasesByWord[x]]_vars

\* word 1 was deleted while its panel was expanded: the delete is still to
\* be delivered, the word is still listed and its phrase list is gone
C20_DeletedWordStillListed ==
  /\ DayDetail
  /\ <<user, level, day, 1>> \in deletedExpanded
  /\ <<user, level, day>> \in wordPending
  /\ 1 \in Ids(words)
  /\ 1 \notin Ids(wordsCol(store, user, level, day))
  /\ 1 \notin DOMAIN phrasesByWord

C22_CancelThenRemove ==
  /\ [](\A t \in BagToSet(phraseListeners) :
          Get(phrasesUnsubsRef, t[4], NoTarget) = t)
  /\ [][\A w \in DOMAIN phrasesUnsubsRef :
          w \in DOMAIN phrasesUnsubsRef'
            \/ ~BagIn(phrasesUnsubsRef[w], phraseListeners')]_vars

\* deleteWord ran on an expanded word of the displayed day: its handle and
\* its subscription are gone
C22_HandleRemoved ==
  \E t \in deletedExpanded :
    /\ <<t[1], t[2], t[3]>> = <<user, level, day>>
    /\ t[4] \notin DOMAIN phrasesUnsubsRef
    /\ ~BagIn(t, phraseListeners)

\* no stored word or phrase document has a field besides id, en and es
NoFlagStored ==
  /\ \A k \in DOMAIN store.words : \A i \in 1..Len(store.words[k]) :
       DOMAIN store.words[k][i] = {"id", "en", "es"}
  /\ \A k \in DOMAIN store.phrases : \A i \in 1..Len(store.phrases[k]) :
       DOMAIN store.phrases[k][i] = {"id", "en", "es"}

\* every showEs flag of the list just loaded is false
ShowEsReset ==
  /\ \A t \in wordPending :
       (\A i \in 1..Len(words') : ~words'[i].showEs) \/ ~WordsSnapshot(t)
  /\ \A t \in phrasePending :
       LET next == Get(phrasesByWord', t[4], << >>)
       IN (\A i \in 1..Len(next) : ~next[i].showEs) \/ ~PhrasesSnapshot(t)

\* C23 as stated: after a snapshot reloads the word list every showEs flag
\* and every expanded flag is false, after a phrase snapshot every showEs
\* flag of the list is false, and no flag is stored.
C23_AllFlagsResetOnReload ==
  /\ []NoFlagStored
  /\ [][ShowEsReset]_vars
  /\ [][\A t \in wordPending :
          (\A w \in DOMAIN expandedWords' : ~expandedWords'[w])
            \/ ~WordsSnapshot(t)]_vars

\* C23, amended: a snapshot resets the showEs flags of the list it loads
\* and leaves the expanded flags as they are (they are reset when a day is
\* entered or left and dropped with a deleted word); no flag is stored.
C23_ShowEsResetExpandedKept ==
  /\ []NoFlagStored
  /\ [][ShowEsReset]_vars
  /\ [][\A t \in wordPending \cup phrasePending :
          expandedWords' = expandedWords
            \/ ~(WordsSnapshot(t) \/ PhrasesSnapshot(t))]_vars

\* the panel of word 1 is expanded and the word list was reloaded since:
\* the loaded list of the displayed day no longer holds word 1
C23_ExpandedAcrossReload ==
  /\ DayDetail
  /\ wordsFrom = <<user, level, day>>
  /\ Get(expandedWords, 1, FALSE)
  /\ 1 \notin Ids(words)

\* C24: a submit of the add-day dialog writes at most one day document,
\* whose key is the decimal text of an integer k >= 1 and whose dayNumber
\* is k, and writes nothing for an input that is not a number, is zero or
\* negative, or truncates to zero.
C24_OnlyPositiveIntegerDays ==
  [][\A text \in DayTexts :
       \/ store' = store
       \/ /\ text \notin {"0", "abc", "0.5", "-1"}
          /\ \E k \in 1..9 :
               store' = [store EXCEPT !.days =
                           Put(@, <<user, level, Digits[k]>>, [dayNumber |-> k])]
       \/ ~AddDaySubmit(text)]_vars

\* C25: the day documents of the store change only in a submit of the
\* add-day dialog, an import, a day-list snapshot that finds the list empty
\* or a deleteDay; no other step creates or rewrites one.
C25_DayDocsOnlyByAddImportAuto ==
  [][\/ store'.days = store.days
     \/ \E text \in DayInputs : AddDaySubmit(text)
     \/ \E f \in ImportFiles, accepted \in BOOLEAN : importAll(f, accepted)
     \/ \E t \in dayPending : DaysSnapshot(t)
     \/ \E d \in DayIds : deleteDay(d)]_vars

\* C26: every word and phrase document of the store has a non-empty en and
\* a non-empty es.
C26_NonEmptyTexts ==
  /\ \A k \in DOMAIN store.words : \A i \in 1..Len(store.words[k]) :
       store.words[k][i].en # "" /\ store.words[k][i].es # ""
  /\ \A k \in DOMAIN store.phrases : \A i \in 1..Len(store.phrases[k]) :
       store.phrases[k][i].en # "" /\ store.phrases[k][i].es # ""

\* C27: a day-list snapshot replaces the day list by the queried days and
\* leaves words, phrase lists and expanded flags; a word-list snapshot
\* replaces the word list by the queried words and leaves days, phrase
\* lists and expanded flags; a phrase snapshot for word w replaces the
\* phrase list of w by the queried phrases and leaves days, words, expanded
\* flags and the phrase list of every other word.
C27_SnapshotReplacesOwnSlice ==
  /\ [][\A t \in dayPending :
          \/ /\ Ids(days') = levelDaysCol(store, t[1], t[2])
             /\ UNCHANGED <<words, phrasesByWord, expandedWords>>
          \/ ~DaysSnapshot(t)]_vars
  /\ [][\A t \in wordPending :
          \/ /\ Ids(words') =
                  Ids(Limit(wordsCol(store, t[1], t[2], t[3]), MAX_WORDS))
             /\ UNCHANGED <<days, phrasesByWord, expandedWords>>
          \/ ~WordsSnapshot(t)]_vars
  /\ [][\A t \in phrasePending :
          \/ /\ UNCHANGED <<days, words, expandedWords>>
             /\ DOMAIN phrasesByWord' = DOMAIN phrasesByWord \cup {t[4]}
             /\ Ids(phrasesByWord'[t[4]]) =
                  Ids(Limit(phrasesCol(store, t[1], t[2], t[3], t[4]),
                            MAX_PHRASES))
             /\ \A w \in DOMAIN phrasesByWord \ {t[4]} :
                  phrasesByWord'[w] = phrasesByWord[w]
          \/ ~PhrasesSnapshot(t)]_vars

\* the phrase lists of both words of the day are loaded, one of them with
\* its translation shown: the later of the two snapshots left the other
\* word's list alone
C27_BothPhraseListsLoaded ==
  /\ DayDetail
  /\ DOMAIN phrasesByWord = {1, AutoId(1)}
  /\ \E w \in DOMAIN phrasesByWord : phrasesByWord[w][1].showEs
  /\ phrasePending = {}

\* C28: on the day screen of a level, the in-memory day list is empty or
\* was loaded from the day collection of that level.
C28_DayListOfSelectedLevel ==
  DaySelect => (days = << >> \/ daysFrom = <<user, level>>)

C30_LoginKeepsStoredData ==
  [][(user' # Null /\ ~docLoaded') =>
       \A u \in DOMAIN firestore :
         u \in DOMAIN firestore' /\ firestore'[u] = firestore[u]]_vars

====
